---------------------------- MODULE Spec2Model ----------------------------
(***************************************************************************)
(* Sutherland-Hodgman polygon clipping (src/src/main.rs).                  *)
(*                                                                         *)
(* Coordinates are f64 in the source.  The clipping loop compares cross    *)
(* products to 0.0 and coordinates to each other with no tolerance, so the *)
(* rounding of every +, -, * and / decides what the program does.  The     *)
(* model therefore carries every coordinate as the binary64 value the      *)
(* program holds: a finite f64 is sign * mantissa * 2^exponent, and each   *)
(* operation is the exact result rounded to 53 significant bits, ties to   *)
(* even.  Mantissas do not fit the model checker's integers, so they are   *)
(* little-endian sequences of 15-bit limbs.  Overflow, subnormals, NaN and *)
(* infinities cannot arise from the bounded inputs and are not modelled;   *)
(* -0.0 and 0.0 compare equal everywhere in the source and are one value.  *)
(***************************************************************************)
EXTENDS Integers, Sequences, FiniteSets, TLC

(***************************************************************************)
(* Every operator below evaluates each operand once: an operand is bound   *)
(* as the element of a one-element set, Once({body : x \in {operand}}),    *)
(* and the body then reads the value.                                      *)
(***************************************************************************)
Once(S) == CHOOSE r \in S : TRUE

Min(x, y) == IF x <= y THEN x ELSE y
Max(x, y) == IF x >= y THEN x ELSE y

(***************************************************************************)
(* Natural numbers of any size: little-endian limbs, no leading zero limb. *)
(***************************************************************************)
Base == 2^15
LimbBits == CHOOSE n \in 1..30 : 2^n = Base

Limb(a, n) == IF n >= 1 /\ n <= Len(a) THEN a[n] ELSE 0

RECURSIVE TopLimb(_, _)
TopLimb(a, n) == IF n = 0 THEN 0 ELSE IF a[n] # 0 THEN n ELSE TopLimb(a, n - 1)

\* a without its leading zero limbs
BNorm(a) == Once({SubSeq(x, 1, TopLimb(x, Len(x))) : x \in {a}})

RECURSIVE BFromNat(_)
BFromNat(n) == IF n = 0 THEN <<>> ELSE <<n % Base>> \o BFromNat(n \div Base)

RECURSIVE BCmpAt(_, _, _)
BCmpAt(a, b, n) ==
    IF n = 0 THEN 0
    ELSE IF a[n] > b[n] THEN 1
    ELSE IF a[n] < b[n] THEN -1
    ELSE BCmpAt(a, b, n - 1)

\* -1, 0 or 1 as a < b, a = b, a > b
BCmp(a, b) ==
    Once({IF Len(x) > Len(y) THEN 1
          ELSE IF Len(x) < Len(y) THEN -1
          ELSE BCmpAt(x, y, Len(x)) : x \in {a}, y \in {b}})

RECURSIVE BAddAt(_, _, _, _)
BAddAt(a, b, n, c) ==
    IF n > Len(a) /\ n > Len(b)
    THEN (IF c = 0 THEN <<>> ELSE <<c>>)
    ELSE Once({<<t % Base>> \o BAddAt(a, b, n + 1, t \div Base) :
               t \in {Limb(a, n) + Limb(b, n) + c}})

BAdd(a, b) == Once({BAddAt(x, y, 1, 0) : x \in {a}, y \in {b}})

RECURSIVE BSubAt(_, _, _, _)
BSubAt(a, b, n, c) ==
    IF n > Len(a) THEN <<>>
    ELSE Once({IF t < 0 THEN <<t + Base>> \o BSubAt(a, b, n + 1, 1)
                        ELSE <<t>> \o BSubAt(a, b, n + 1, 0) :
               t \in {a[n] - Limb(b, n) - c}})

\* a - b, for a >= b
BSub(a, b) == Once({BNorm(BSubAt(x, y, 1, 0)) : x \in {a}, y \in {b}})

RECURSIVE BMulLimbAt(_, _, _, _)
BMulLimbAt(a, d, n, c) ==
    IF n > Len(a)
    THEN (IF c = 0 THEN <<>> ELSE <<c>>)
    ELSE Once({<<t % Base>> \o BMulLimbAt(a, d, n + 1, t \div Base) :
               t \in {a[n] * d + c}})

\* a * d for one limb d
BMulLimb(a, d) ==
    Once({IF y = 0 THEN <<>> ELSE BMulLimbAt(x, y, 1, 0) : x \in {a}, y \in {d}})

RECURSIVE BMulAt(_, _, _)
BMulAt(a, b, n) ==
    IF n > Len(b) THEN <<>>
    ELSE BAdd(BMulLimb(a, b[n]), <<0>> \o BMulAt(a, b, n + 1))

BMul(a, b) == Once({BNorm(BMulAt(x, y, 1)) : x \in {a}, y \in {b}})

RECURSIVE BitLenLimb(_)
BitLenLimb(x) == IF x = 0 THEN 0 ELSE 1 + BitLenLimb(x \div 2)

BitLen(a) ==
    Once({IF x = <<>> THEN 0 ELSE LimbBits * (Len(x) - 1) + BitLenLimb(x[Len(x)]) :
          x \in {a}})

Zeros(n) == [j \in 1..n |-> 0]

\* a * 2^n
BShl(a, n) ==
    Once({IF x = <<>> THEN <<>>
          ELSE Zeros(sh \div LimbBits) \o BMulLimb(x, 2^(sh % LimbBits)) :
          x \in {a}, sh \in {n}})

\* floor(a / 2^n)
BShr(a, n) ==
    Once({IF q >= Len(x) THEN <<>>
          ELSE BNorm([j \in 1..(Len(x) - q) |->
                        (x[j + q] \div 2^r) + (Limb(x, j + q + 1) % 2^r) * 2^(LimbBits - r)]) :
          x \in {a}, q \in {n \div LimbBits}, r \in {n % LimbBits}})

\* bit n of a, counting from 0
BBit(a, n) == (Limb(a, n \div LimbBits + 1) \div 2^(n % LimbBits)) % 2

\* some bit of a below bit n is set
BAnyLow(a, n) ==
    \/ \E j \in 1..(n \div LimbBits) : Limb(a, j) # 0
    \/ Limb(a, n \div LimbBits + 1) % 2^(n % LimbBits) # 0

RECURSIVE TrailingZerosLimb(_)
TrailingZerosLimb(x) == IF x % 2 = 1 THEN 0 ELSE 1 + TrailingZerosLimb(x \div 2)

RECURSIVE BTrailingZerosAt(_, _)
BTrailingZerosAt(a, n) ==
    IF a[n] = 0 THEN LimbBits + BTrailingZerosAt(a, n + 1)
    ELSE TrailingZerosLimb(a[n])

\* the number of trailing zero bits of a > 0
BTrailingZeros(a) == Once({BTrailingZerosAt(x, 1) : x \in {a}})

RECURSIVE BFitDigit(_, _, _)
BFitDigit(r, d, q) == IF BCmp(BMulLimb(d, q), r) = 1 THEN BFitDigit(r, d, q - 1) ELSE q

\* floor(r / d) for r < d * Base and the top limb of d at least Base / 2
BQuotDigit(r, d) ==
    IF BCmp(r, d) = -1 THEN 0
    ELSE BFitDigit(r, d, Min((Limb(r, Len(d) + 1) * Base + r[Len(d)]) \div d[Len(d)], Base - 1))

RECURSIVE BDivAt(_, _, _, _, _)
BDivAt(a, d, n, q, r) ==
    IF n = 0 THEN [quot |-> BNorm(q), exact |-> (r = <<>>)]
    ELSE Once({Once({BDivAt(a, d, n - 1, <<qd>> \o q, BSub(r1, BMulLimb(d, qd))) :
                     qd \in {BQuotDigit(r1, d)}}) :
               r1 \in {BNorm(<<a[n]>> \o r)}})

\* floor(a / d) and whether the division is exact, for d > 0
BDiv(a, d) ==
    Once({Once({BDivAt(x, y, Len(x), <<>>, <<>>) : x \in {BShl(a, sh)}, y \in {BShl(d, sh)}}) :
          sh \in {LimbBits - BitLenLimb(d[Len(d)])}})

(***************************************************************************)
(* f64.  A value is [s, m, e]: s * m * 2^e with s in {-1, 0, 1} and m odd  *)
(* (m empty and e = 0 for zero), so equal values are equal records.        *)
(***************************************************************************)
Precision == 53

FZero == [s |-> 0, m |-> <<>>, e |-> 0]

\* s * mag * 2^e for any mag, which must fit the 53 bits
FExact(s, mag, e) ==
    Once({IF x = <<>> \/ s = 0 THEN FZero
          ELSE Once({[s |-> s, m |-> BShr(x, tz), e |-> e + tz] : tz \in {BTrailingZeros(x)}}) :
          x \in {mag}})

\* s * (mag + a fraction below 1, present iff sticky) * 2^e rounded to nearest, ties to even
FRound(s, mag, sticky, e) ==
    Once({IF sh <= 0 THEN FExact(s, x, e)
          ELSE Once({FExact(s, IF BBit(x, sh - 1) = 1
                                  /\ (sticky \/ BAnyLow(x, sh - 1) \/ BBit(t, 0) = 1)
                               THEN BAdd(t, <<1>>) ELSE t, e + sh) :
                     t \in {BShr(x, sh)}}) :
          x \in {mag}, sh \in {BitLen(mag) - Precision}})

\* x as f64, for an integer x
FromInt(x) == FExact(IF x < 0 THEN -1 ELSE 1, BFromNat(IF x < 0 THEN -x ELSE x), 0)

FNeg(x) == Once({[v EXCEPT !.s = -v.s] : v \in {x}})

\* the sum of two values before rounding: [s, mag, e]
FSumV(x, y) ==
    IF x.s = 0 THEN [s |-> y.s, mag |-> y.m, e |-> y.e]
    ELSE IF y.s = 0 THEN [s |-> x.s, mag |-> x.m, e |-> x.e]
    ELSE Once({Once({
            IF x.s = y.s THEN [s |-> x.s, mag |-> BAdd(a, b), e |-> e]
            ELSE Once({IF c = 0 THEN [s |-> 0, mag |-> <<>>, e |-> 0]
                       ELSE IF c = 1 THEN [s |-> x.s, mag |-> BSub(a, b), e |-> e]
                       ELSE [s |-> y.s, mag |-> BSub(b, a), e |-> e] : c \in {BCmp(a, b)}}) :
            a \in {BShl(x.m, x.e - e)}, b \in {BShl(y.m, y.e - e)}}) :
          e \in {Min(x.e, y.e)}})

FSum(x, y) == Once({FSumV(u, v) : u \in {x}, v \in {y}})

\* x + y
FAdd(x, y) == Once({FRound(r.s, r.mag, FALSE, r.e) : r \in {FSum(x, y)}})

\* x - y
FSub(x, y) == FAdd(x, FNeg(y))

\* x * y
FMul(x, y) ==
    Once({IF u.s = 0 \/ v.s = 0 THEN FZero
          ELSE FRound(u.s * v.s, BMul(u.m, v.m), FALSE, u.e + v.e) : u \in {x}, v \in {y}})

\* x / y, for y # 0
FDivV(x, y) ==
    IF x.s = 0 THEN FZero
    ELSE Once({Once({FRound(x.s * y.s, d.quot, ~d.exact, x.e - y.e - sh) :
                     d \in {BDiv(BShl(x.m, sh), y.m)}}) :
               sh \in {Max(0, Precision + 2 + BitLen(y.m) - BitLen(x.m))}})

FDiv(x, y) == Once({FDivV(u, v) : u \in {x}, v \in {y}})

\* -1, 0 or 1 as x < y, x = y, x > y
FCmp(x, y) ==
    Once({IF u.s # v.s THEN (IF u.s > v.s THEN 1 ELSE -1) ELSE FSum(u, FNeg(v)).s :
          u \in {x}, v \in {y}})

FGe(x, y) == FCmp(x, y) >= 0
FLe(x, y) == FCmp(x, y) <= 0
\* f64::min, f64::max
FMin(x, y) == Once({IF FLe(u, v) THEN u ELSE v : u \in {x}, v \in {y}})
FMax(x, y) == Once({IF FGe(u, v) THEN u ELSE v : u \in {x}, v \in {y}})

(***************************************************************************)
(* Point, Line, Polygon.  A polygon is the sequence of its vertexes; an    *)
(* Option<Point> is the empty sequence (None) or a one-point sequence.     *)
(***************************************************************************)
Point(x, y) == [x |-> x, y |-> y]

\* Point::new on integer coordinates <<x, y>>
PointOf(c) == Point(FromInt(c[1]), FromInt(c[2]))

PolygonOf(cs) == [k \in 1..Len(cs) |-> PointOf(cs[k])]

Line(start, end) == [start |-> start, end |-> end]

None == <<>>
Some(p) == <<p>>

\* cross_product with the two vectors exchanged: the sign of the result is flipped
cross_product_flipped(line, point) ==
    LET vector_edge == Point(FSub(line.end.x, line.start.x), FSub(line.end.y, line.start.y))
        vector_vertex == Point(FSub(point.x, line.start.x), FSub(point.y, line.start.y))
    IN  FSub(FMul(vector_vertex.x, vector_edge.y), FMul(vector_vertex.y, vector_edge.x))

cross_product(line, point) ==
    LET vector_edge == Point(FSub(line.end.x, line.start.x), FSub(line.end.y, line.start.y))
        vector_vertex == Point(FSub(point.x, line.start.x), FSub(point.y, line.start.y))
    IN  FSub(FMul(vector_edge.x, vector_vertex.y), FMul(vector_edge.y, vector_vertex.x))

\* is_inside with > in place of >=: a point on the line is outside
is_inside_strict(line, point) == FCmp(cross_product(line, point), FZero) > 0

is_inside(line, point) == FGe(cross_product(line, point), FZero)

\* the determinant with + in place of -
determinant_sum(self, other) ==
    LET a1 == FSub(self.end.y, self.start.y)
        b1 == FSub(self.start.x, self.end.x)
        a2 == FSub(other.end.y, other.start.y)
        b2 == FSub(other.start.x, other.end.x)
    IN  FAdd(FMul(a1, b2), FMul(a2, b1))

\* the determinant a1 * b2 - a2 * b1 of Line::intersection
determinant(self, other) ==
    LET a1 == FSub(self.end.y, self.start.y)
        b1 == FSub(self.start.x, self.end.x)
        a2 == FSub(other.end.y, other.start.y)
        b2 == FSub(other.start.x, other.end.x)
    IN  FSub(FMul(a1, b2), FMul(a2, b1))

\* in_range without f64::min and f64::max: the range from p up to q
in_range_ordered(x, p, q) == FGe(x, p) /\ FLe(x, q)

\* x lies in the closed range spanned by p and q
in_range(x, p, q) == FGe(x, FMin(p, q)) /\ FLe(x, FMax(p, q))

intersection(self, other) ==
    LET a1 == FSub(self.end.y, self.start.y)
        b1 == FSub(self.start.x, self.end.x)
        c1 == FAdd(FMul(a1, self.start.x), FMul(b1, self.start.y))
        a2 == FSub(other.end.y, other.start.y)
        b2 == FSub(other.start.x, other.end.x)
        c2 == FAdd(FMul(a2, other.start.x), FMul(b2, other.start.y))
        det == determinant(self, other)
    IN  IF det = FZero THEN None
        ELSE LET x == FDiv(FSub(FMul(b2, c1), FMul(b1, c2)), det)
                 y == FDiv(FSub(FMul(a1, c2), FMul(a2, c1)), det)
             IN  IF /\ in_range(x, self.start.x, self.end.x)
                    /\ in_range(y, self.start.y, self.end.y)
                    /\ in_range(x, other.start.x, other.end.x)
                    /\ in_range(y, other.start.y, other.end.y)
                 THEN Some(Point(x, y))
                 ELSE None

\* PointPositions::calculate_intersection: what it pushes
calculate_intersection(line, intersection_line) == intersection(line, intersection_line)

\* PointPositions::calculate_vertexes for the positions of start and end
calculate_vertexes(start, end, line) ==
    LET start_inside == is_inside(line, start)
        end_inside == is_inside(line, end)
    IN  IF start_inside /\ end_inside THEN <<end>>
        ELSE IF start_inside /\ ~end_inside
             THEN calculate_intersection(line, Line(start, end))
        ELSE IF ~start_inside /\ end_inside
             THEN calculate_intersection(line, Line(start, end)) \o <<end>>
        ELSE <<>>

\* push_unique with contains in place of last: a point is pushed only if new
push_unique_contains(unique_points, point) ==
    IF \E n \in DOMAIN unique_points : unique_points[n] = point
    THEN unique_points
    ELSE Append(unique_points, point)

\* if unique_points.last() != Some(&point) { unique_points.push(point) }
push_unique(unique_points, point) ==
    IF unique_points # <<>> /\ unique_points[Len(unique_points)] = point
    THEN unique_points
    ELSE Append(unique_points, point)

RECURSIVE remove_from(_, _, _)
remove_from(output_polygon, k, unique_points) ==
    IF k > Len(output_polygon) THEN unique_points
    ELSE remove_from(output_polygon, k + 1, push_unique(unique_points, output_polygon[k]))

remove_duplicated_points(output_polygon) == remove_from(output_polygon, 1, <<>>)

\* the directed clip edge i (1-based) of a polygon
clipping_line(polygon, k) == Line(polygon[k], polygon[(k % Len(polygon)) + 1])

RECURSIVE clip_from(_, _, _)
clip_from(output_polygon, line, j) ==
    IF j > Len(output_polygon) THEN <<>>
    ELSE calculate_vertexes(output_polygon[j],
                            output_polygon[(j % Len(output_polygon)) + 1], line)
         \o clip_from(output_polygon, line, j + 1)

\* one iteration of the outer loop of clip_polygon: the new_vertexes for a clip edge
clip_edge(output_polygon, line) == clip_from(output_polygon, line, 1)

RECURSIVE clip_edges(_, _, _)
clip_edges(clipping, output_polygon, k) ==
    IF k > Len(clipping) THEN output_polygon
    ELSE clip_edges(clipping, clip_edge(output_polygon, clipping_line(clipping, k)), k + 1)

\* what clip_polygon returns for an output_polygon after the loop
finish(output_polygon) ==
    IF output_polygon = <<>> THEN None ELSE Some(remove_duplicated_points(output_polygon))

\* SutherlandHodgman::clip_polygon: None, or Some(vertexes of the polygon)
clip_polygon(clipping, input) == finish(clip_edges(clipping, input, 1))


(***************************************************************************)
(* The program as a state machine.                                         *)
(*   polygon, clipping              the two arguments of                   *)
(*                                  PolygonClippingCalculator::clip_polygon *)
(*   clipping_polygon, input_polygon  the arguments of                     *)
(*                                  SutherlandHodgman::clip_polygon        *)
(*   output_polygon, i              its working list and clip-edge index   *)
(*   unique_points, k               remove_duplicated_points' list, index  *)
(*   result                         the Option<Polygon> returned           *)
(*   self_line, other_line, found   a call of Line::intersection           *)
(***************************************************************************)
VARIABLES polygon, clipping, clipping_polygon, input_polygon, output_polygon, i,
          unique_points, k, result, self_line, other_line, found, pc

vars == <<polygon, clipping, clipping_polygon, input_polygon, output_polygon, i,
          unique_points, k, result, self_line, other_line, found, pc>>

\* bounds of the inputs
MaxCoord == 3
MaxLen == 4
MaxLineCoord == 2

Grid(n) == {<<x, y>> : x \in 0..n, y \in 0..n}

\* the clip polygons of Spec: three vertexes on the unit cell at (1,1), the first at
\* (1,1), and the square spanning the grid
ClipPoints == {<<1, 1>>, <<2, 1>>, <<1, 2>>, <<2, 2>>}
GridSquare == <<(<<0, 0>>), (<<MaxCoord, 0>>), (<<MaxCoord, MaxCoord>>), (<<0, MaxCoord>>)>>
ClipPolygons == {<<(<<1, 1>>), p, q>> : p \in ClipPoints, q \in ClipPoints} \cup {GridSquare}

\* the input polygons of Spec: the triangles with a vertex at the origin, and the
\* square spanning the grid with its last vertex moved anywhere
InputPolygons ==
    {<<(<<0, 0>>), p, q>> : p \in Grid(MaxCoord), q \in Grid(MaxCoord)}
    \cup {<<(<<0, 0>>), (<<MaxCoord, 0>>), (<<MaxCoord, MaxCoord>>), p>> : p \in Grid(MaxCoord)}

\* the polygons of main and of the specification's examples
Square == <<(<<150, 150>>), (<<200, 150>>), (<<200, 200>>), (<<150, 200>>)>>
Triangle == <<(<<100, 150>>), (<<200, 250>>), (<<300, 200>>)>>
Reversed(p) == [n \in 1..Len(p) |-> p[Len(p) + 1 - n]]
UnitSquare == <<(<<0, 0>>), (<<1, 0>>), (<<1, 1>>), (<<0, 1>>)>>
FarTriangle == <<(<<10, 10>>), (<<11, 10>>), (<<10, 11>>)>>
MainPolygons == {Square, Triangle, Reversed(Triangle), Reversed(Square), UnitSquare, FarTriangle}

\* the points remove_duplicated_points is fed in SpecDedup
DedupPoints == {PointOf(<<0, 0>>), PointOf(<<1, 0>>), Point(FDiv(FromInt(1), FromInt(3)), FromInt(1))}
Lists(S, n) == UNION {[1..m -> S] : m \in 0..n}

NoLine == Line(PointOf(<<0, 0>>), PointOf(<<0, 0>>))

\* a caller about to call SutherlandHodgman::clip_polygon
Init ==
    /\ \E c \in ClipPolygons, p \in InputPolygons :
          /\ clipping_polygon = PolygonOf(c)
          /\ input_polygon = PolygonOf(p)
    /\ polygon = <<>> /\ clipping = <<>>
    /\ output_polygon = <<>> /\ i = 0
    /\ unique_points = <<>> /\ k = 0
    /\ result = None
    /\ self_line = NoLine /\ other_line = NoLine /\ found = None
    /\ pc = "strategy"

\* main: a caller about to call PolygonClippingCalculator::clip_polygon
InitMain ==
    /\ \E a \in MainPolygons, b \in MainPolygons :
          /\ polygon = PolygonOf(a)
          /\ clipping = PolygonOf(b)
    /\ clipping_polygon = <<>> /\ input_polygon = <<>>
    /\ output_polygon = <<>> /\ i = 0
    /\ unique_points = <<>> /\ k = 0
    /\ result = None
    /\ self_line = NoLine /\ other_line = NoLine /\ found = None
    /\ pc = "calculator"

\* a caller about to call SutherlandHodgman::clip_polygon with a clipping polygon of no
\* vertexes: the loop over the clip edges runs no iteration, and the vertex list that
\* reaches remove_duplicated_points is the input's, whatever it is
InitDedup ==
    /\ clipping_polygon = <<>>
    /\ input_polygon \in Lists(DedupPoints, MaxLen)
    /\ polygon = <<>> /\ clipping = <<>>
    /\ output_polygon = <<>> /\ i = 0
    /\ unique_points = <<>> /\ k = 0
    /\ result = None
    /\ self_line = NoLine /\ other_line = NoLine /\ found = None
    /\ pc = "strategy"

\* a caller about to call Line::intersection
InitLine ==
    /\ \E a \in Grid(MaxLineCoord), b \in Grid(MaxLineCoord),
          c \in Grid(MaxLineCoord), d \in Grid(MaxLineCoord) :
          /\ self_line = Line(PointOf(a), PointOf(b))
          /\ other_line = Line(PointOf(c), PointOf(d))
    /\ polygon = <<>> /\ clipping = <<>>
    /\ clipping_polygon = <<>> /\ input_polygon = <<>>
    /\ output_polygon = <<>> /\ i = 0
    /\ unique_points = <<>> /\ k = 0
    /\ result = None
    /\ found = None
    /\ pc = "line"

\* PolygonClippingCalculator::clip_polygon(polygon, clipping_polygon): forwards its
\* arguments in the order it received them, then clip_polygon clones its input
CalculatorClipPolygon ==
    /\ pc = "calculator"
    /\ clipping_polygon' = polygon
    /\ input_polygon' = clipping
    /\ output_polygon' = clipping
    /\ i' = 1
    /\ pc' = "loop"
    /\ UNCHANGED <<polygon, clipping, unique_points, k, result, self_line, other_line, found>>

\* SutherlandHodgman::clip_polygon: let mut output_polygon = input_polygon.vertexes.clone()
StrategyClipPolygon ==
    /\ pc = "strategy"
    /\ output_polygon' = input_polygon
    /\ i' = 1
    /\ pc' = "loop"
    /\ UNCHANGED <<polygon, clipping, clipping_polygon, input_polygon, unique_points, k,
                   result, self_line, other_line, found>>

\* one iteration of for i in 0..clipping_polygon.vertexes.len()
ClipEdge ==
    /\ pc = "loop"
    /\ i <= Len(clipping_polygon)
    /\ output_polygon' = clip_edge(output_polygon, clipping_line(clipping_polygon, i))
    /\ i' = i + 1
    /\ UNCHANGED <<polygon, clipping, clipping_polygon, input_polygon, unique_points, k,
                   result, self_line, other_line, found, pc>>

\* after the loop: return None for an empty output_polygon, else remove the duplicates
LoopExit ==
    /\ pc = "loop"
    /\ i > Len(clipping_polygon)
    /\ IF output_polygon = <<>>
       THEN /\ result' = None
            /\ pc' = "done"
            /\ UNCHANGED <<unique_points, k>>
       ELSE /\ unique_points' = <<>>
            /\ k' = 1
            /\ pc' = "dedup"
            /\ UNCHANGED result
    /\ UNCHANGED <<polygon, clipping, clipping_polygon, input_polygon, output_polygon, i,
                   self_line, other_line, found>>

\* one iteration of for point in output_polygon
DedupStep ==
    /\ pc = "dedup"
    /\ k <= Len(output_polygon)
    /\ unique_points' = push_unique(unique_points, output_polygon[k])
    /\ k' = k + 1
    /\ UNCHANGED <<polygon, clipping, clipping_polygon, input_polygon, output_polygon, i,
                   result, self_line, other_line, found, pc>>

\* remove_duplicated_points returns unique_points
DedupReturn ==
    /\ pc = "dedup"
    /\ k > Len(output_polygon)
    /\ pc' = "deduped"
    /\ UNCHANGED <<polygon, clipping, clipping_polygon, input_polygon, output_polygon, i,
                   unique_points, k, result, self_line, other_line, found>>

\* Some(Polygon::new(unique_points))
Return ==
    /\ pc = "deduped"
    /\ result' = Some(unique_points)
    /\ pc' = "done"
    /\ UNCHANGED <<polygon, clipping, clipping_polygon, input_polygon, output_polygon, i,
                   unique_points, k, self_line, other_line, found>>

\* Line::intersection
Intersect ==
    /\ pc = "line"
    /\ found' = intersection(self_line, other_line)
    /\ pc' = "line_done"
    /\ UNCHANGED <<polygon, clipping, clipping_polygon, input_polygon, output_polygon, i,
                   unique_points, k, result, self_line, other_line>>

Clip == ClipEdge \/ LoopExit \/ DedupStep \/ DedupReturn \/ Return

Next == StrategyClipPolygon \/ Clip
NextMain == CalculatorClipPolygon \/ Clip
NextDedup == StrategyClipPolygon \/ LoopExit \/ DedupStep \/ DedupReturn \/ Return
NextLine == Intersect

Spec == Init /\ [][Next]_vars
SpecMain == InitMain /\ [][NextMain]_vars
SpecDedup == InitDedup /\ [][NextDedup]_vars
SpecLine == InitLine /\ [][NextLine]_vars

(***************************************************************************)
(* The geometry of the inputs, on their integer coordinates.               *)
(***************************************************************************)
RECURSIVE BToNat(_)
BToNat(a) == IF a = <<>> THEN 0 ELSE a[1] + Base * BToNat(Tail(a))

\* the integer an f64 holds, for an f64 that holds a small one
ToInt(x) == x.s * BToNat(x.m) * 2^x.e

Coords(P) == [n \in 1..Len(P) |-> <<ToInt(P[n].x), ToInt(P[n].y)>>]
Scaled(P, c) == [n \in 1..Len(P) |-> <<c * P[n][1], c * P[n][2]>>]
SuccIndex(P, n) == (n % Len(P)) + 1
Succ(P, n) == P[SuccIndex(P, n)]
Range(s) == {s[n] : n \in DOMAIN s}

ICross(a, b, c) == (b[1] - a[1]) * (c[2] - a[2]) - (b[2] - a[2]) * (c[1] - a[1])
Sign(x) == IF x > 0 THEN 1 ELSE IF x < 0 THEN -1 ELSE 0
InBox(a, b, p) ==
    /\ Min(a[1], b[1]) <= p[1] /\ p[1] <= Max(a[1], b[1])
    /\ Min(a[2], b[2]) <= p[2] /\ p[2] <= Max(a[2], b[2])
\* p is a point of the closed segment from a to b
OnSeg(a, b, p) == ICross(a, b, p) = 0 /\ InBox(a, b, p)
\* the closed segments a-b and c-d have a point in common
SegsMeet(a, b, c, d) ==
    \/ /\ Sign(ICross(a, b, c)) # Sign(ICross(a, b, d))
       /\ Sign(ICross(c, d, a)) # Sign(ICross(c, d, b))
    \/ OnSeg(a, b, c) \/ OnSeg(a, b, d) \/ OnSeg(c, d, a) \/ OnSeg(c, d, b)

\* P is convex and counter-clockwise, with no three vertexes on a line: every
\* other vertex is strictly to the left of every directed edge
ConvexCCW(P) ==
    /\ Len(P) >= 3
    /\ \A n \in 1..Len(P) : \A m \in 1..Len(P) :
          (m # n /\ m # SuccIndex(P, n)) => ICross(P[n], Succ(P, n), P[m]) > 0

\* P is a simple polygon: its vertexes differ, edges with a common vertex meet
\* only there, and other edges do not meet
Simple(P) ==
    /\ Len(P) >= 3
    /\ \A n \in 1..Len(P) : \A m \in (n + 1)..Len(P) :
          /\ P[n] # P[m]
          /\ IF SuccIndex(P, n) = m
             THEN ~OnSeg(P[n], P[m], Succ(P, m)) /\ ~OnSeg(P[m], Succ(P, m), P[n])
             ELSE IF SuccIndex(P, m) = n
             THEN ~OnSeg(P[m], P[n], Succ(P, n)) /\ ~OnSeg(P[n], Succ(P, n), P[m])
             ELSE ~SegsMeet(P[n], Succ(P, n), P[m], Succ(P, m))

\* the edge a-b crosses the ray from q in the direction of x
Crosses(a, b, q) ==
    /\ (a[2] > q[2]) # (b[2] > q[2])
    /\ ((q[2] - a[2]) * (b[1] - a[1]) - (q[1] - a[1]) * (b[2] - a[2])) * (b[2] - a[2]) > 0
OnBoundary(P, q) == \E n \in 1..Len(P) : OnSeg(P[n], Succ(P, n), q)
OddCrossings(P, q) == Cardinality({n \in 1..Len(P) : Crosses(P[n], Succ(P, n), q)}) % 2 = 1
\* q is a point of the region of the simple polygon P; of its interior
InsideOrOn(P, q) == OnBoundary(P, q) \/ OddCrossings(P, q)
StrictlyInside(P, q) == ~OnBoundary(P, q) /\ OddCrossings(P, q)

\* the regions of C and P share a point interior to both, hence a region of positive
\* area: a point with coordinates in quarters is looked for
Overlap(C, P) ==
    \E u \in 0..(4 * MaxCoord), v \in 0..(4 * MaxCoord) :
        StrictlyInside(Scaled(C, 4), <<u, v>>) /\ StrictlyInside(Scaled(P, 4), <<u, v>>)

\* the regions of the simple polygons C and P have no point in common
Disjoint(C, P) ==
    /\ \A n \in 1..Len(C), m \in 1..Len(P) : ~SegsMeet(C[n], Succ(C, n), P[m], Succ(P, m))
    /\ ~InsideOrOn(P, C[1])
    /\ ~InsideOrOn(C, P[1])

\* every vertex of P is on or to the left of every directed edge of C
Contains(C, P) ==
    \A n \in 1..Len(C), m \in 1..Len(P) : ICross(C[n], Succ(C, n), P[m]) >= 0

\* the directed edges of a polygon
Edges(polygon_) == {clipping_line(polygon_, n) : n \in 1..Len(polygon_)}

\* every vertex of the list is inside every directed edge of the clipping polygon
AllInside(vertexes, clipping_) ==
    \A v \in Range(vertexes) : \A line \in Edges(clipping_) : is_inside(line, v)

\* x - y and x * y with no rounding
XSub(x, y) == Once({FExact(r.s, r.mag, r.e) : r \in {FSum(x, FNeg(y))}})
XMul(x, y) ==
    Once({IF u.s = 0 \/ v.s = 0 THEN FZero ELSE FExact(u.s * v.s, BMul(u.m, v.m), u.e + v.e) :
          u \in {x}, v \in {y}})
\* the cross product of Line::cross_product with no rounding
ExactCross(line, point) ==
    XSub(XMul(XSub(line.end.x, line.start.x), XSub(point.y, line.start.y)),
         XMul(XSub(line.end.y, line.start.y), XSub(point.x, line.start.x)))
\* the point lies on the closed segment of the line
OnSegment(line, point) ==
    /\ ExactCross(line, point) = FZero
    /\ FGe(point.x, FMin(line.start.x, line.end.x)) /\ FLe(point.x, FMax(line.start.x, line.end.x))
    /\ FGe(point.y, FMin(line.start.y, line.end.y)) /\ FLe(point.y, FMax(line.start.y, line.end.y))

\* s rotated left by n places
Rotate(s, n) == [j \in 1..Len(s) |-> s[((j - 1 + n) % Len(s)) + 1]]

\* s without the elements that equal their immediate predecessor
Kept(s) == {j \in 1..Len(s) : j = 1 \/ s[j] # s[j - 1]}
Collapse(s) ==
    [n \in 1..Cardinality(Kept(s)) |->
        s[CHOOSE j \in Kept(s) : Cardinality({h \in Kept(s) : h <= j}) = n]]
NoConsecutive(s) == \A n \in 1..(Len(s) - 1) : s[n] # s[n + 1]

Returned == pc = "done" /\ result # None

(***************************************************************************)
(* The claims.                                                             *)
(***************************************************************************)

\* C1: for a convex counter-clockwise clipping polygon and a simple input polygon
\* whose regions overlap in a region of positive area, clip_polygon returns Some.
C1_OverlapIsPresent ==
    (/\ pc = "done"
     /\ ConvexCCW(Coords(clipping_polygon))
     /\ Simple(Coords(input_polygon))
     /\ Overlap(Coords(clipping_polygon), Coords(input_polygon)))
    => result # None

\* C2: for a convex counter-clockwise clipping polygon and a simple input polygon
\* whose regions have no point in common, clip_polygon returns None.
C2_DisjointIsAbsent ==
    (/\ pc = "done"
     /\ ConvexCCW(Coords(clipping_polygon))
     /\ Simple(Coords(input_polygon))
     /\ Disjoint(Coords(clipping_polygon), Coords(input_polygon)))
    => result = None

\* C3: every vertex of a returned polygon is inside (cross product >= 0) the
\* directed line of every edge of the clipping polygon.
C3_Containment == Returned => AllInside(result[1], clipping_polygon)

\* C4: if every vertex of P is inside every directed edge of the clipping polygon then
\* clip_polygon returns Some polygon with the vertex set of P and the cyclic order of
\* P, up to the collapse of consecutive duplicates (P convex or not).
C4_IdentityClip ==
    (pc = "done" /\ Contains(Coords(clipping_polygon), Coords(input_polygon)))
    => /\ result # None
       /\ Range(result[1]) = Range(input_polygon)
       /\ \E n \in 0..(Len(input_polygon) - 1) :
             result[1] = Collapse(Rotate(input_polygon, n))

C4_Witness ==
    /\ Returned
    /\ ConvexCCW(Coords(clipping_polygon))
    /\ ConvexCCW(Coords(input_polygon))
    /\ Contains(Coords(clipping_polygon), Coords(input_polygon))
    /\ Len(result[1]) = Len(input_polygon)

\* the square clipped against the triangle of main
SquareByTriangle ==
    /\ pc = "done"
    /\ clipping_polygon = PolygonOf(Triangle)
    /\ input_polygon = PolygonOf(Square)

\* the square clipped against the triangle of main in counter-clockwise order
SquareByReversedTriangle ==
    /\ pc = "done"
    /\ clipping_polygon = PolygonOf(Reversed(Triangle))
    /\ input_polygon = PolygonOf(Square)

\* the result is Some polygon of at least one vertex, every vertex inside every edge of
\* the clipping polygon, each a vertex of the input polygon or the intersection of a
\* clip edge with an edge of the input polygon
PartialOverlap ==
    /\ result # None
    /\ result[1] # <<>>
    /\ AllInside(result[1], clipping_polygon)
    /\ \A v \in Range(result[1]) :
          \/ v \in Range(input_polygon)
          \/ \E line \in Edges(clipping_polygon), edge \in Edges(input_polygon) :
                intersection(line, edge) = Some(v)

\* C5 as stated: the square clipped against the triangle (100,150),(200,250),(300,200)
\* gives a non-empty polygon inside the triangle, made of square vertexes and
\* intersections of square edges with triangle edges.
C5_AsStated == SquareByTriangle => PartialOverlap

\* C5: the square clipped against the triangle in the order (300,200),(200,250),(100,150)
\* gives the polygon (150,200),(150,162.5),(200,175),(200,200), inside the triangle and
\* made of square vertexes and intersections of square edges with triangle edges;
\* against the triangle in the order (100,150),(200,250),(300,200) it gives None.
C5_PartialOverlap ==
    /\ SquareByReversedTriangle =>
          /\ PartialOverlap
          /\ result[1] = <<PointOf(<<150, 200>>),
                           Point(FromInt(150), FDiv(FromInt(325), FromInt(2))),
                           PointOf(<<200, 175>>),
                           PointOf(<<200, 200>>)>>
    /\ SquareByTriangle => result = None

C5_Witness == SquareByReversedTriangle /\ Len(result[1]) = Len(Square)

\* C6: PolygonClippingCalculator::clip_polygon(polygon, clipping_polygon) returns what
\* SutherlandHodgman::clip_polygon returns with the second argument as the clipping
\* polygon and the first as the input polygon.
C6_SecondArgumentClips == pc = "done" => result = clip_polygon(clipping, polygon)

\* C7: remove_duplicated_points returns its list without exactly the elements that
\* equal their immediate predecessor, no two consecutive elements of it are equal, and
\* no polygon clip_polygon returns has two consecutive equal vertexes.
C7_ConsecutiveDuplicates ==
    /\ pc = "deduped" =>
          /\ unique_points = Collapse(output_polygon)
          /\ NoConsecutive(unique_points)
    /\ Returned => NoConsecutive(result[1])

C7_Witness ==
    /\ Returned
    /\ Len(result[1]) < Len(output_polygon)
    /\ \E n \in DOMAIN result[1], m \in DOMAIN result[1] : n + 1 < m /\ result[1][n] = result[1][m]

\* the determinant a1 * b2 - a2 * b1 of two lines in the integers
IDet(self, other) ==
    (ToInt(self.end.y) - ToInt(self.start.y)) * (ToInt(other.start.x) - ToInt(other.end.x))
    - (ToInt(other.end.y) - ToInt(other.start.y)) * (ToInt(self.start.x) - ToInt(self.end.x))

\* C8: Line::intersection returns None for every pair of segments whose determinant
\* is zero: parallel, collinear, identical or degenerate.
C8_ZeroDeterminantIsAbsent ==
    (pc = "line_done" /\ IDet(self_line, other_line) = 0) => found = None

\* two distinct segments on one line that share more than a point
C8_Witness ==
    /\ pc = "line_done"
    /\ self_line.start # self_line.end
    /\ other_line.start # other_line.end
    /\ self_line # other_line
    /\ OnSegment(self_line, other_line.start)
    /\ OnSegment(other_line, self_line.end)
    /\ other_line.start # self_line.end
    /\ found = None

\* C9: clip_polygon depends on the vertex order of the clipping polygon: the square
\* clipped against the triangle (300,200),(200,250),(100,150) is Some polygon, and
\* clipped against the same triangle with its vertex order reversed it is None.
C9_OrderSensitive ==
    SquareByReversedTriangle =>
        /\ result # None
        /\ clip_polygon(Reversed(clipping_polygon), input_polygon) = None

C9_Witness ==
    /\ SquareByReversedTriangle
    /\ result # None
    /\ Reversed(clipping_polygon) = PolygonOf(Triangle)
    /\ clip_polygon(PolygonOf(Triangle), input_polygon) = None

\* C10: after any number of clip edges, every vertex of the working list is a vertex
\* of the input polygon or lies on the segment of a clip edge processed so far, and a
\* returned polygon has at least one vertex.
C10_LoopInvariant ==
    /\ pc = "loop" =>
          \A v \in Range(output_polygon) :
              \/ v \in Range(input_polygon)
              \/ \E n \in 1..(i - 1) : OnSegment(clipping_line(clipping_polygon, n), v)
    /\ Returned =>
          /\ result[1] # <<>>
          /\ \A v \in Range(result[1]) :
                \/ v \in Range(input_polygon)
                \/ \E line \in Edges(clipping_polygon) : OnSegment(line, v)

=============================================================================
